---- MODULE Spec2Model ----
(***************************************************************************)
(* The kinematic chain (IKJoint, IKChain), the orchestrator (IKSolver) and *)
(* the CCD solver (CCDIKSolver) of layn67/iksolver.                        *)
(*                                                                         *)
(* Numbers.  The program computes in IEEE doubles.  The model computes in  *)
(* exact arithmetic over Q(sqrt 2): a number is [a, b, d], standing for    *)
(* (a + b*sqrt(2)) / d, and NaN is the one value with d = 0.  The inputs   *)
(* (joint axes, offsets, limits, targets) are drawn from sets on which     *)
(* every operation of the solver stays inside this field, so each          *)
(* quaternion, matrix and length below is the value the formulas of the    *)
(* program produce, not an approximation of it.  Angles are kept in        *)
(* degrees (180 stands for Math.PI).                                       *)
(***************************************************************************)
EXTENDS Integers, Sequences, FiniteSets, TLC

----------------------------------------------------------------------------
(* Bounds of the model *)

MaxIterationsBound == 2   \* config.maxIterations
MaxBuilds == 2            \* calls of createFromURDF in one behaviour
MaxSolves == 2            \* calls of IKSolver.solve that reach CCDIKSolver

----------------------------------------------------------------------------
(* JavaScript numbers *)

Abs(n) == IF n < 0 THEN -n ELSE n

RECURSIVE Gcd(_, _)
Gcd(m, n) == IF n = 0 THEN m ELSE Gcd(n, m % n)

NaN == [a |-> 0, b |-> 0, d |-> 0]

\* (a + b*sqrt(2)) / d in lowest terms with d > 0; d = 0 is NaN
Num(a, b, d) ==
    IF d = 0 THEN NaN
    ELSE LET g == Gcd(Gcd(Abs(a), Abs(b)), Abs(d))
             s == IF d < 0 THEN -1 ELSE 1
         IN  [a |-> (s * a) \div g, b |-> (s * b) \div g, d |-> Abs(d) \div g]

Int2Num(n) == [a |-> n, b |-> 0, d |-> 1]
Zero == Int2Num(0)
One == Int2Num(1)
Two == Int2Num(2)
Half == [a |-> 1, b |-> 0, d |-> 2]
Sqrt2 == [a |-> 0, b |-> 1, d |-> 1]
HalfSqrt2 == [a |-> 0, b |-> 1, d |-> 2]

IsNaN(x) == x.d = 0

Add(x, y) == Num(x.a * y.d + y.a * x.d, x.b * y.d + y.b * x.d, x.d * y.d)
Neg(x) == [a |-> -x.a, b |-> -x.b, d |-> x.d]
Sub(x, y) == Add(x, Neg(y))
Mul(x, y) == Num(x.a * y.a + 2 * x.b * y.b, x.a * y.b + x.b * y.a, x.d * y.d)

\* sign of a + b*sqrt(2): t |-> t*|t| is increasing and odd
Sign(x) ==
    LET v == x.a * Abs(x.a) + 2 * x.b * Abs(x.b)
    IN  IF v > 0 THEN 1 ELSE IF v < 0 THEN -1 ELSE 0

MathAbs(x) == IF Sign(x) < 0 THEN Neg(x) ELSE x

\* x < y and x > y of JavaScript: false as soon as one side is NaN
Less(x, y) == ~IsNaN(x) /\ ~IsNaN(y) /\ Sign(Sub(y, x)) > 0
Greater(x, y) == Less(y, x)

\* x / y.  The one division by something that can be zero or missing is
\* undefined / undefined in getIKJointRotationAngle, which is NaN.
Div(x, y) ==
    IF IsNaN(x) \/ IsNaN(y) \/ Sign(y) = 0 THEN NaN
    ELSE Num((x.a * y.a - 2 * x.b * y.b) * y.d,
             (x.b * y.a - x.a * y.b) * y.d,
             x.d * (y.a * y.a - 2 * y.b * y.b))

\* Math.sqrt on the rationals n/d whose root is k/d or k*sqrt(2)/d
Sqrt(x) ==
    IF IsNaN(x) \/ x.b # 0 \/ x.a < 0 THEN NaN
    ELSE LET n == x.a * x.d
         IN  IF \E k \in 0..n : k * k = n
             THEN Num(CHOOSE k \in 0..n : k * k = n, 0, x.d)
             ELSE IF \E k \in 0..n : 2 * k * k = n
             THEN Num(0, CHOOSE k \in 0..n : 2 * k * k = n, x.d)
             ELSE NaN

\* Math.asin, in degrees: NaN outside [-1, 1]
Asin(x) ==
    IF IsNaN(x) \/ Greater(x, One) \/ Less(x, Neg(One)) THEN NaN
    ELSE IF x = Zero THEN Zero
    ELSE IF x = Half THEN Int2Num(30)
    ELSE IF x = Neg(Half) THEN Int2Num(-30)
    ELSE IF x = HalfSqrt2 THEN Int2Num(45)
    ELSE IF x = Neg(HalfSqrt2) THEN Int2Num(-45)
    ELSE IF x = One THEN Int2Num(90)
    ELSE IF x = Neg(One) THEN Int2Num(-90)
    ELSE NaN

\* Math.sin and Math.cos of an angle in degrees, a multiple of 45
Sin(deg) ==
    IF IsNaN(deg) \/ deg.b # 0 \/ deg.d # 1 \/ deg.a % 45 # 0 THEN NaN
    ELSE LET k == (deg.a \div 45) % 8
         IN  CASE k = 0 -> Zero      [] k = 1 -> HalfSqrt2
               [] k = 2 -> One       [] k = 3 -> HalfSqrt2
               [] k = 4 -> Zero      [] k = 5 -> Neg(HalfSqrt2)
               [] k = 6 -> Neg(One)  [] k = 7 -> Neg(HalfSqrt2)
Cos(deg) == Sin(Add(deg, Int2Num(90)))

----------------------------------------------------------------------------
(* three.js Vector3, Quaternion and Matrix4 (rotation r, translation t) *)

Vec(x, y, z) == [x |-> x, y |-> y, z |-> z]
IVec(x, y, z) == Vec(Int2Num(x), Int2Num(y), Int2Num(z))
Quat(x, y, z, w) == [x |-> x, y |-> y, z |-> z, w |-> w]
IdentityQt == Quat(Zero, Zero, Zero, One)
ZeroVec == IVec(0, 0, 0)

VAdd(u, v) == Vec(Add(u.x, v.x), Add(u.y, v.y), Add(u.z, v.z))
VSub(u, v) == Vec(Sub(u.x, v.x), Sub(u.y, v.y), Sub(u.z, v.z))
dot(u, v) == Add(Add(Mul(u.x, v.x), Mul(u.y, v.y)), Mul(u.z, v.z))
length(v) == Sqrt(dot(v, v))

\* Vector3.normalize: divideScalar(length() || 1)
normalize(v) ==
    LET l == length(v)
        m == IF Sign(l) = 0 THEN One ELSE l
    IN  Vec(Div(v.x, m), Div(v.y, m), Div(v.z, m))

\* Quaternion.normalize: identity when the length is 0
QNormalize(q) ==
    LET l == Sqrt(Add(Add(Mul(q.x, q.x), Mul(q.y, q.y)),
                      Add(Mul(q.z, q.z), Mul(q.w, q.w))))
    IN  IF ~IsNaN(l) /\ Sign(l) = 0 THEN IdentityQt
        ELSE Quat(Div(q.x, l), Div(q.y, l), Div(q.z, l), Div(q.w, l))

\* Quaternion.multiply: a * b
multiply(a, b) ==
    Quat(Sub(Add(Add(Mul(a.x, b.w), Mul(a.w, b.x)), Mul(a.y, b.z)), Mul(a.z, b.y)),
         Sub(Add(Add(Mul(a.y, b.w), Mul(a.w, b.y)), Mul(a.z, b.x)), Mul(a.x, b.z)),
         Sub(Add(Add(Mul(a.z, b.w), Mul(a.w, b.z)), Mul(a.x, b.y)), Mul(a.y, b.x)),
         Sub(Sub(Sub(Mul(a.w, b.w), Mul(a.x, b.x)), Mul(a.y, b.y)), Mul(a.z, b.z)))

\* Quaternion.invert: the conjugate (three.js takes the quaternion to be unit)
invert(q) == Quat(Neg(q.x), Neg(q.y), Neg(q.z), q.w)

\* Vector3.applyQuaternion: v + w*t + cross(q.xyz, t) with t = 2*cross(q.xyz, v)
applyQuaternion(v, q) ==
    LET tx == Mul(Two, Sub(Mul(q.y, v.z), Mul(q.z, v.y)))
        ty == Mul(Two, Sub(Mul(q.z, v.x), Mul(q.x, v.z)))
        tz == Mul(Two, Sub(Mul(q.x, v.y), Mul(q.y, v.x)))
    IN  Vec(Sub(Add(Add(v.x, Mul(q.w, tx)), Mul(q.y, tz)), Mul(q.z, ty)),
            Sub(Add(Add(v.y, Mul(q.w, ty)), Mul(q.z, tx)), Mul(q.x, tz)),
            Sub(Add(Add(v.z, Mul(q.w, tz)), Mul(q.x, ty)), Mul(q.y, tx)))

\* Quaternion.setFromUnitVectors(vFrom, vTo).  Number.EPSILON is 2^-52;
\* on the exact values of the model r < EPSILON is r <= 0.
setFromUnitVectors(vFrom, vTo) ==
    LET r == Add(dot(vFrom, vTo), One)
    IN  IF ~IsNaN(r) /\ Sign(r) <= 0
        THEN IF Greater(MathAbs(vFrom.x), MathAbs(vFrom.z))
             THEN QNormalize(Quat(Neg(vFrom.y), vFrom.x, Zero, Zero))
             ELSE QNormalize(Quat(Zero, Neg(vFrom.z), vFrom.y, Zero))
        ELSE QNormalize(Quat(Sub(Mul(vFrom.y, vTo.z), Mul(vFrom.z, vTo.y)),
                             Sub(Mul(vFrom.z, vTo.x), Mul(vFrom.x, vTo.z)),
                             Sub(Mul(vFrom.x, vTo.y), Mul(vFrom.y, vTo.x)),
                             r))

\* Quaternion.setFromAxisAngle(axis, angle)
setFromAxisAngle(axis, angle) ==
    LET halfAngle == Div(angle, Two)
        s == Sin(halfAngle)
    IN  Quat(Mul(axis.x, s), Mul(axis.y, s), Mul(axis.z, s), Cos(halfAngle))

\* Matrix4.compose(position, quaternion, scale = 1): rows of the rotation
\* block r and the translation column t
compose(position, q) ==
    LET x2 == Add(q.x, q.x)  y2 == Add(q.y, q.y)  z2 == Add(q.z, q.z)
        xx == Mul(q.x, x2)   xy == Mul(q.x, y2)   xz == Mul(q.x, z2)
        yy == Mul(q.y, y2)   yz == Mul(q.y, z2)   zz == Mul(q.z, z2)
        wx == Mul(q.w, x2)   wy == Mul(q.w, y2)   wz == Mul(q.w, z2)
    IN  [r |-> << Vec(Sub(One, Add(yy, zz)), Sub(xy, wz), Add(xz, wy)),
                  Vec(Add(xy, wz), Sub(One, Add(xx, zz)), Sub(yz, wx)),
                  Vec(Sub(xz, wy), Add(yz, wx), Sub(One, Add(xx, yy))) >>,
         t |-> position]

IdentityMatrix == compose(ZeroVec, IdentityQt)

\* the rotation block applied to a vector
MulRot(r, v) == Vec(dot(r[1], v), dot(r[2], v), dot(r[3], v))
Column(r, c) == Vec(r[1][c], r[2][c], r[3][c])
Transpose(r) == << Column(r, "x"), Column(r, "y"), Column(r, "z") >>

\* Matrix4.multiplyMatrices(a, b)
multiplyMatrices(a, b) ==
    [r |-> [i \in 1..3 |-> Vec(dot(a.r[i], Column(b.r, "x")),
                               dot(a.r[i], Column(b.r, "y")),
                               dot(a.r[i], Column(b.r, "z")))],
     t |-> VAdd(MulRot(a.r, b.t), a.t)]

\* Vector3.applyMatrix4(m.invert()) for a matrix m composed of rotations and
\* translations only: the inverse of the rotation block is its transpose
applyInverseMatrix4(v, m) == MulRot(Transpose(m.r), VSub(v, m.t))

----------------------------------------------------------------------------
(* The external robot descriptions (urdf-loader URDFRobot).  A joint has    *)
(* one child link; children lists the joints under that link, in order.    *)

\* joint.limit is undefined, or <<the limit>>
NoLimit == <<>>
JointLimit(lo, hi) == [lower |-> Int2Num(lo), upper |-> Int2Num(hi)]
Limit(lo, hi) == << JointLimit(lo, hi) >>
QuarterTurnX == Quat(HalfSqrt2, Zero, Zero, HalfSqrt2)
DiagonalAxis == Vec(HalfSqrt2, HalfSqrt2, Zero)

URDFJoint(type, ax, lim, pos, rot, kids) ==
    [jointType |-> type, axis |-> ax, limit |-> lim, position |-> pos,
     rotation |-> rot, children |-> kids]

\* revolute about y in [0, 90] that starts tilted, a fixed joint, the effector
ArmRobot ==
    [base |-> <<1>>,
     joints |-> << URDFJoint("revolute", IVec(0, 1, 0), Limit(0, 90), ZeroVec, QuarterTurnX, <<2>>),
                   URDFJoint("fixed", IVec(1, 0, 0), Limit(0, 0), ZeroVec, QuarterTurnX, <<3>>),
                   URDFJoint("revolute", IVec(0, 0, 1), Limit(-90, 90), IVec(3, 0, 0), IdentityQt, <<>>) >>]

\* continuous joint about a diagonal unit axis, no limit declared
SpinRobot ==
    [base |-> <<1>>,
     joints |-> << URDFJoint("continuous", DiagonalAxis, NoLimit, ZeroVec, IdentityQt, <<2>>),
                   URDFJoint("fixed", IVec(1, 0, 0), Limit(0, 0), IVec(3, 0, 0), IdentityQt, <<>>) >>]

\* the link under joint 1 carries two joints, and joint 2 has a zero axis
BranchRobot ==
    [base |-> <<1>>,
     joints |-> << URDFJoint("revolute", IVec(0, 0, 1), Limit(-90, 90), ZeroVec, IdentityQt, <<2, 3>>),
                   URDFJoint("continuous", ZeroVec, NoLimit, ZeroVec, IdentityQt, <<4>>),
                   URDFJoint("fixed", IVec(1, 0, 0), Limit(0, 0), IVec(0, 0, 3), IdentityQt, <<>>),
                   URDFJoint("fixed", IVec(1, 0, 0), Limit(0, 0), IVec(0, 3, 0), IdentityQt, <<>>) >>]

RobotNames == {"arm", "spin", "branch"}
Robots ==
    [n \in RobotNames |->
        CASE n = "arm" -> ArmRobot [] n = "spin" -> SpinRobot
          [] n = "branch" -> BranchRobot]

\* target.position values the caller may set
Targets == {IVec(-3, 0, 0), IVec(0, 0, -3), IVec(0, 0, 3), IVec(4, 0, 0)}

----------------------------------------------------------------------------
(* IKJoint: a joint of the arena is [urdf, parent, position, quaternion,   *)
(* matrixWorld]; urdf is NoURDF for the root joint, else <<robot, index>>. *)

NoURDF == <<>>
DEFAULT_AXIS == IVec(0, 1, 0)

urdfJoint(j) == Robots[j.urdf[1]].joints[j.urdf[2]]
isRootJoint(j) == j.urdf = NoURDF
axis(j) == IF isRootJoint(j) THEN DEFAULT_AXIS ELSE urdfJoint(j).axis

Truthy(x) == ~IsNaN(x) /\ Sign(x) # 0

\* the first of x, y, z whose component is non-zero, else ''
axisName(j) ==
    IF Truthy(axis(j).x) THEN "x"
    ELSE IF Truthy(axis(j).y) THEN "y"
    ELSE IF Truthy(axis(j).z) THEN "z"
    ELSE ""

limit(j) ==
    IF isRootJoint(j) \/ urdfJoint(j).limit = NoLimit
    THEN JointLimit(0, 0)
    ELSE urdfJoint(j).limit[1]

isHinge(j) == ~isRootJoint(j) /\ urdfJoint(j).jointType = "revolute"
\* mutant: the solver no longer recognises fixed joints
isFixed_never(j) == FALSE

isFixed(j) == ~isRootJoint(j) /\ urdfJoint(j).jointType = "fixed"

----------------------------------------------------------------------------
(* State *)

VARIABLES
    joints,          \* every IKJoint constructed so far, in construction order
    _ikJoints,       \* IKChain._ikJoints: Undefined or a non-empty list of joints
    _endEffector,    \* IKChain._endEffector: 0 (undefined) or a joint
    urdfQuaternion,  \* quaternion of each joint of each external description
    built,           \* the descriptions createFromURDF has returned for
    ikChain,         \* IKSolver.ikChain: FALSE is null, TRUE the chain
    target,          \* IKSolver.target: Null or <<target.position>>
    _config,         \* IKSolver._config
    pc,              \* "idle"; in CCDIKSolver "while" (at the loop test) or "for"
    iteration,       \* CCDIKSolver's iteration
    i,               \* position in ikJoints of the for loop, counted from 1
    endEffectorTargetDistance,
    solves,          \* calls of solve that reached CCDIKSolver
    outcome,         \* how the last call of solve ended
    processed        \* joints the last call of CCDIKSolver rotated

vars == << joints, _ikJoints, _endEffector, urdfQuaternion, built, ikChain,
           target, _config, pc, iteration, i, endEffectorTargetDistance,
           solves, outcome, processed >>

\* an absent value is the empty tuple; a present target is <<position>>
Undefined == <<>>
Null == <<>>
ROOT == 1

----------------------------------------------------------------------------
(* three.js Object3D over the arena *)

\* new IKJoint(urdfJoint): position and rotation copied from the description
IKJoint(urdf, parent, quats) ==
    [urdf |-> urdf, parent |-> parent,
     position |-> IF urdf = NoURDF THEN ZeroVec
                  ELSE Robots[urdf[1]].joints[urdf[2]].position,
     quaternion |-> IF urdf = NoURDF THEN IdentityQt ELSE quats[urdf[1]][urdf[2]],
     matrixWorld |-> IdentityMatrix]

\* Object3D.updateMatrix, then matrixWorld from the parent's cached
\* matrixWorld (the root's parent is a Group left at the identity)
LocalToWorld(js, n) ==
    LET m == compose(js[n].position, js[n].quaternion)
    IN  IF js[n].parent = 0 THEN m
        ELSE multiplyMatrices(js[js[n].parent].matrixWorld, m)

\* Object3D.updateWorldMatrix(true, false): the ancestors first, then joint n
RECURSIVE updateWorldMatrix(_, _)
updateWorldMatrix(js, n) ==
    IF n = 0 THEN js
    ELSE LET up == updateWorldMatrix(js, js[n].parent)
         IN  [up EXCEPT ![n].matrixWorld = LocalToWorld(up, n)]

\* Object3D.updateMatrixWorld(): joint n, then every descendant of n.
\* Parents precede their children in the arena.
RECURSIVE UpdateFrom(_, _, _)
UpdateFrom(js, done, k) ==
    IF k > Len(js) THEN js
    ELSE IF js[k].parent \in done
    THEN UpdateFrom([js EXCEPT ![k].matrixWorld = LocalToWorld(js, k)],
                    done \cup {k}, k + 1)
    ELSE UpdateFrom(js, done, k + 1)

updateMatrixWorld(js, n) ==
    UpdateFrom([js EXCEPT ![n].matrixWorld = LocalToWorld(js, n)], {n}, n + 1)

\* Object3D.worldToLocal, once updateWorldMatrix(true, false) has refreshed
\* the joint: the vector through the inverse of matrixWorld
worldToLocal(j, v) == applyInverseMatrix4(v, j.matrixWorld)

\* Object3D.traverse from joint n: n, then its children in the order added
RECURSIVE traverse(_, _)
RECURSIVE TraverseChildren(_, _, _)
TraverseChildren(js, n, k) ==
    IF k > Len(js) THEN <<>>
    ELSE IF js[k].parent = n
    THEN traverse(js, k) \o TraverseChildren(js, n, k + 1)
    ELSE TraverseChildren(js, n, k + 1)
traverse(js, n) == <<n>> \o TraverseChildren(js, n, n + 1)

----------------------------------------------------------------------------
(* IKChain *)

\* get ikJoints: what the getter returns, which is also the cache afterwards
ikJoints(js, cache) == IF cache = Undefined THEN traverse(js, ROOT) ELSE cache

\* the first joint under the child link of joint u, 0 when there is none
_nextURDFJoint(robot, u) ==
    IF Robots[robot].joints[u].children = <<>> THEN 0
    ELSE Robots[robot].joints[u].children[1]

\* the first joint under the robot that has a next joint
_baseURDFJoint(robot) ==
    LET cands == {k \in 1..Len(Robots[robot].base) :
                      _nextURDFJoint(robot, Robots[robot].base[k]) # 0}
    IN  Robots[robot].base[CHOOSE k \in cands : \A m \in cands : k <= m]

RECURSIVE _traverseURDFJoints(_, _, _, _, _)
_traverseURDFJoints(js, parentIKJoint, robot, u, quats) ==
    LET added == Append(js, IKJoint(<<robot, u>>, parentIKJoint, quats))
        ikJoint == Len(added)
        nextUrdfJoint == _nextURDFJoint(robot, u)
    IN  IF nextUrdfJoint = 0
        THEN [joints |-> added, endEffector |-> ikJoint]
        ELSE _traverseURDFJoints(added, ikJoint, robot, nextUrdfJoint, quats)

----------------------------------------------------------------------------
(* CCDIKSolver *)

\* ikJoint.quaternion[axisName] and axis[axisName]: undefined for ''
Component(v, name) == IF name = "" THEN NaN ELSE v[name]

\* Math.asin(quaternion[axisName] / axis[axisName]) * 2
getIKJointRotationAngle(j) ==
    Mul(Asin(Div(Component(j.quaternion, axisName(j)),
                 Component(axis(j), axisName(j)))), Two)

\* [clamped angle, isClamped]
clampIKJointRotationAngle(ikJointRotationAngle, lim) ==
    IF Less(ikJointRotationAngle, lim.lower) THEN << lim.lower, TRUE >>
    ELSE IF Greater(ikJointRotationAngle, lim.upper) THEN << lim.upper, TRUE >>
    ELSE << ikJointRotationAngle, FALSE >>

\* endEffector.worldToLocal(targetPos.clone()).length(), js being the joints
\* as worldToLocal refreshed them
calcEndEffectorTargetDistance(js, endEffector, targetPos) ==
    length(worldToLocal(js[endEffector], targetPos))

\* mutant: the axis correction is applied to the root joint only
needsAxisCorrection_rootOnly(j) == isRootJoint(j)

\* if (ikJoint.isHinge || ikJoint.isRootJoint)
needsAxisCorrection(j) == isHinge(j) \/ isRootJoint(j)

\* if (ikJoint.limit): the getter returns an object, and an object is truthy
hasLimit(j) == DOMAIN limit(j) = {"lower", "upper"}

\* the aiming step: quaternion.multiply(setFromUnitVectors(toEffector, toTarget))
Aimed(j, endEffectorWorldPos, targetPos) ==
    LET directionToEndEffector == normalize(worldToLocal(j, endEffectorWorldPos))
        directionToTarget == normalize(worldToLocal(j, targetPos))
    IN  multiply(j.quaternion,
                 setFromUnitVectors(directionToEndEffector, directionToTarget))

\* the axis correction of a hinge or root joint
AxisCorrected(j, q) ==
    IF needsAxisCorrection(j)
    THEN LET jointAxisInverseQt == applyQuaternion(axis(j), invert(q))
         IN  multiply(q, setFromUnitVectors(axis(j), jointAxisInverseQt))
    ELSE q

\* the limit clamp
Clamped(j, q) ==
    IF hasLimit(j)
    THEN LET c == clampIKJointRotationAngle(
                      getIKJointRotationAngle([j EXCEPT !.quaternion = q]), limit(j))
         IN  IF c[2] THEN setFromAxisAngle(axis(j), c[1]) ELSE q
    ELSE q

\* the quaternion the body of the for loop leaves in a joint that is not fixed
Rotated(j, endEffectorWorldPos, targetPos) ==
    Clamped(j, AxisCorrected(j, Aimed(j, endEffectorWorldPos, targetPos)))

\* the condition of the while loop
LoopCondition(distance, iter, config) ==
    Greater(distance, config.tolerance) /\ iter <= config.maxIterations

----------------------------------------------------------------------------
(* IKSolver *)

\* mutant: only the target is tested
MissingOperand_targetOnly(chain, tgt) == tgt = Null

\* if (!this.ikChain || !this.target) return
MissingOperand(chain, tgt) == ~chain \/ tgt = Null

\* ikJoint.urdfJoint?.quaternion.copy(ikJoint.quaternion), joint by joint
RECURSIVE _updateURDFRobot(_, _, _, _)
_updateURDFRobot(quats, js, list, k) ==
    IF k > Len(list) THEN quats
    ELSE LET j == js[list[k]]
         IN  _updateURDFRobot(
                 IF isRootJoint(j) THEN quats
                 ELSE [quats EXCEPT ![j.urdf[1]][j.urdf[2]] = j.quaternion],
                 js, list, k + 1)

----------------------------------------------------------------------------
(* Initial state: new IKChain(), new IKSolver(config) *)

Tolerance == [a |-> 1, b |-> 0, d |-> 100]

\* the orientation each description gives its joints
InitialQuaternions ==
    [n \in RobotNames |->
        [u \in 1..Len(Robots[n].joints) |-> Robots[n].joints[u].rotation]]

Init ==
    /\ joints = << IKJoint(NoURDF, 0, <<>>) >>
    /\ _ikJoints = Undefined
    /\ _endEffector = 0
    /\ urdfQuaternion = InitialQuaternions
    /\ built = <<>>
    /\ ikChain = FALSE
    /\ target = Null
    /\ _config \in [tolerance : {Tolerance},
                    maxIterations : {MaxIterationsBound},
                    updateURDFRobot : BOOLEAN]
    /\ pc = "idle"
    /\ iteration = 0
    /\ i = 0
    /\ endEffectorTargetDistance = Zero
    /\ solves = 0
    /\ outcome = "none"
    /\ processed = {}

----------------------------------------------------------------------------
(* Operations *)

\* a first read of chain.ikJoints by the caller (IKHelper.visualizeIKChain)
ReadIkJoints ==
    /\ pc = "idle"
    /\ _ikJoints = Undefined
    /\ _ikJoints' = ikJoints(joints, _ikJoints)
    /\ UNCHANGED << joints, _endEffector, urdfQuaternion, built, ikChain, target,
                    _config, pc, iteration, i, endEffectorTargetDistance,
                    solves, outcome, processed >>

\* chain.createFromURDF(robot).  A rebuild hands over the description the
\* chain was first built from, and comes only once the joint list has been
\* read (by a solve or by the caller): the list read after two builds
\* without a read in between holds the end effector of the first chain,
\* whose offset takes the solver's directions out of Q(sqrt 2).
createFromURDF(robot) ==
    /\ pc = "idle"
    /\ Len(built) < MaxBuilds
    /\ built # <<>> => (robot = built[1] /\ _ikJoints # Undefined)
    /\ LET r == _traverseURDFJoints(joints, ROOT, robot, _baseURDFJoint(robot),
                                    urdfQuaternion)
       IN  /\ joints' = r.joints
           /\ _endEffector' = r.endEffector
    /\ built' = Append(built, robot)
    /\ UNCHANGED << _ikJoints, urdfQuaternion, ikChain, target, _config, pc,
                    iteration, i, endEffectorTargetDistance, solves, outcome,
                    processed >>

\* solver.ikChain = chain
SetIkChain ==
    /\ pc = "idle"
    /\ ~ikChain
    /\ ikChain' = TRUE
    /\ UNCHANGED << joints, _ikJoints, _endEffector, urdfQuaternion, built,
                    target, _config, pc, iteration, i,
                    endEffectorTargetDistance, solves, outcome, processed >>

\* solver.target = an Object3D at position t, or the caller moves the target
SetTarget(t) ==
    /\ pc = "idle"
    /\ target # << t >>
    /\ target' = << t >>
    /\ UNCHANGED << joints, _ikJoints, _endEffector, urdfQuaternion, built,
                    ikChain, _config, pc, iteration, i,
                    endEffectorTargetDistance, solves, outcome, processed >>

\* solve() up to the first test of the while loop of CCDIKSolver
solve ==
    /\ pc = "idle"
    /\ IF MissingOperand(ikChain, target)
       THEN /\ outcome' = "noop"
            /\ UNCHANGED << joints, _ikJoints, _endEffector, urdfQuaternion,
                            pc, iteration, endEffectorTargetDistance, solves,
                            processed >>
       ELSE /\ solves < MaxSolves
            /\ solves' = solves + 1
            /\ _ikJoints' = ikJoints(joints, _ikJoints)
            /\ processed' = {}
            /\ IF _endEffector = 0
               THEN \* endEffector.worldToLocal on undefined
                    /\ outcome' = "TypeError"
                    /\ UNCHANGED << joints, pc, iteration,
                                    endEffectorTargetDistance >>
               ELSE /\ outcome' = "running"
                    /\ pc' = "while"
                    /\ iteration' = 0
                    /\ joints' = updateWorldMatrix(joints, _endEffector)
                    /\ endEffectorTargetDistance' =
                           calcEndEffectorTargetDistance(joints', _endEffector, target[1])
            /\ UNCHANGED << _endEffector, urdfQuaternion >>
    /\ UNCHANGED << built, ikChain, target, _config, i >>

\* the while test holds: for (let i = ikJoints.length - 2; ...)
EnterSweep ==
    /\ pc = "while"
    /\ LoopCondition(endEffectorTargetDistance, iteration, _config)
    /\ pc' = "for"
    /\ i' = Len(_ikJoints) - 1
    /\ UNCHANGED << joints, _ikJoints, _endEffector, urdfQuaternion, built,
                    ikChain, target, _config, iteration,
                    endEffectorTargetDistance, solves, outcome, processed >>

\* the body of the for loop for ikJoints[i], then i--
SweepJoint ==
    /\ pc = "for"
    /\ i >= 1
    /\ IF ~isFixed(joints[_ikJoints[i]])
       THEN \* getWorldPosition refreshes the end effector and its ancestors,
            \* worldToLocal the joint and its ancestors
            \E fresh \in {updateWorldMatrix(updateWorldMatrix(joints, _endEffector),
                                            _ikJoints[i])} :
            \E q \in {Rotated(fresh[_ikJoints[i]],
                              fresh[_endEffector].matrixWorld.t, target[1])} :
                /\ joints' = updateMatrixWorld(
                                 [fresh EXCEPT ![_ikJoints[i]].quaternion = q],
                                 _ikJoints[i])
                /\ processed' = processed \cup {_ikJoints[i]}
       ELSE /\ joints' = updateMatrixWorld(joints, _ikJoints[i])
            /\ UNCHANGED processed
    /\ i' = i - 1
    /\ UNCHANGED << _ikJoints, _endEffector, urdfQuaternion, built, ikChain,
                    target, _config, pc, iteration, endEffectorTargetDistance,
                    solves, outcome >>

\* the for loop is over: the distance again, iteration++
EndSweep ==
    /\ pc = "for"
    /\ i < 1
    /\ joints' = updateWorldMatrix(joints, _endEffector)
    /\ endEffectorTargetDistance' =
           calcEndEffectorTargetDistance(joints', _endEffector, target[1])
    /\ iteration' = iteration + 1
    /\ pc' = "while"
    /\ UNCHANGED << _ikJoints, _endEffector, urdfQuaternion, built,
                    ikChain, target, _config, i, solves, outcome, processed >>

\* the while test fails: CCDIKSolver returns, solve() writes back when configured
Return ==
    /\ pc = "while"
    /\ ~LoopCondition(endEffectorTargetDistance, iteration, _config)
    /\ urdfQuaternion' = IF _config.updateURDFRobot
                         THEN _updateURDFRobot(urdfQuaternion, joints,
                                               ikJoints(joints, _ikJoints), 1)
                         ELSE urdfQuaternion
    /\ pc' = "idle"
    /\ outcome' = "solved"
    \* the locals of CCDIKSolver are gone
    /\ iteration' = 0
    /\ endEffectorTargetDistance' = Zero
    /\ UNCHANGED << joints, _ikJoints, _endEffector, built, ikChain, target,
                    _config, i, solves, processed >>

Next ==
    \/ ReadIkJoints
    \/ \E robot \in RobotNames : createFromURDF(robot)
    \/ SetIkChain
    \/ \E t \in Targets : SetTarget(t)
    \/ solve
    \/ EnterSweep
    \/ SweepJoint
    \/ EndSweep
    \/ Return

Spec == Init /\ [][Next]_vars

----------------------------------------------------------------------------
(* Sanity of the model: every number stays inside the field, so no value  *)
(* below is an artefact of an operation the model cannot represent        *)

QuaternionComponents ==
    {Zero, Half, Neg(Half), HalfSqrt2, Neg(HalfSqrt2), One, Neg(One)}

TypeOK ==
    /\ \A n \in 1..Len(joints) :
          /\ \A c \in {"x", "y", "z", "w"} :
                joints[n].quaternion[c] \in QuaternionComponents
          /\ \A r \in 1..3 : \A c \in {"x", "y", "z"} :
                joints[n].matrixWorld.r[r][c] \in {Zero, One, Neg(One)}
    /\ ~IsNaN(endEffectorTargetDistance)
    /\ pc \in {"idle", "while", "for"}
    /\ outcome \in {"none", "noop", "TypeError", "running", "solved"}
    /\ Len(built) <= MaxBuilds /\ solves <= MaxSolves

----------------------------------------------------------------------------
(* Vocabulary of the claims, read off the description and not off the     *)
(* solver's own tests                                                      *)

JointType(j) == IF j.urdf = NoURDF THEN "root" ELSE Robots[j.urdf[1]].joints[j.urdf[2]].jointType
DeclaresLimit(j) == j.urdf # NoURDF /\ Robots[j.urdf[1]].joints[j.urdf[2]].limit # NoLimit

\* root, ..., n: the chain that ends in joint n
RECURSIVE PathTo(_)
PathTo(n) == IF n = 0 THEN <<>> ELSE Append(PathTo(joints[n].parent), n)

\* the joint the for loop is about to handle, with the matrices the body
\* refreshes before it reads them
Refreshed == updateWorldMatrix(updateWorldMatrix(joints, _endEffector),
                               _ikJoints[i])
AtJoint ==pc = "for" /\ i >= 1 /\ JointType(joints[_ikJoints[i]]) # "fixed"

\* the rotation a quaternion q about axis a stands for, in (-180, 180]:
\* q and -q are the same rotation, so the sign of w is normalised first
ActualAngles(j) ==
    LET c == Div(Component(j.quaternion, axisName(j)), Component(axis(j), axisName(j)))
    IN  IF Sign(j.quaternion.w) > 0 THEN {Mul(Asin(c), Two)}
        ELSE IF Sign(j.quaternion.w) < 0 THEN {Mul(Asin(Neg(c)), Two)}
        ELSE {Int2Num(180), Int2Num(-180)}

WithinLimit(j) ==
    \E a \in ActualAngles(j) :
        /\ ~IsNaN(a)
        /\ ~Less(a, limit(j).lower)
        /\ ~Greater(a, limit(j).upper)

\* the description branches, or one of its joints has an all-zero axis
Malformed(robot) ==
    \E u \in 1..Len(Robots[robot].joints) :
        \/ Len(Robots[robot].joints[u].children) > 1
        \/ Robots[robot].joints[u].axis = ZeroVec

----------------------------------------------------------------------------
(* Claims *)

\* C1: the number of sweeps one call of CCDIKSolver performs never exceeds
\* maxIterations (iteration counts the sweeps completed so far).
C1_SweepsWithinMaxIterations == iteration <= _config.maxIterations

\* C2: no step of the program changes the orientation of a joint whose type
\* is fixed, whatever the target and however often solve is called.
C2_FixedJointKeepsOrientation ==
    [][\A n \in 1..Len(joints) :
          JointType(joints[n]) = "fixed"
              => joints'[n].quaternion = joints[n].quaternion]_vars

\* a second call has returned after sweeping over a fixed joint, and
\* another joint of the chain was rotated
C2_Witness ==
    /\ pc = "idle" /\ outcome = "solved" /\ solves = 2
    /\ \E k \in 1..(Len(_ikJoints) - 1) : JointType(joints[_ikJoints[k]]) = "fixed"
    /\ \E n \in processed : joints[n].quaternion # IdentityQt

\* C3: after a call of CCDIKSolver that processed it, the rotation of a
\* revolute joint about its axis lies within [lower, upper].
C3_RevoluteWithinLimit ==
    (pc = "idle" /\ outcome = "solved")
        => \A n \in processed :
              JointType(joints[n]) = "revolute" => WithinLimit(joints[n])

\* C4: a root or revolute joint that a call of CCDIKSolver processed is left
\* with an orientation that maps its axis onto itself.
C4_RotationAboutAxisOnly ==
    \A n \in processed :
        JointType(joints[n]) \in {"root", "revolute"}
            => applyQuaternion(axis(joints[n]), joints[n].quaternion) = axis(joints[n])

\* a call has returned that left a revolute joint, which started tilted off
\* its axis, rotated
C4_Witness ==
    /\ pc = "idle" /\ outcome = "solved"
    /\ \E n \in processed :
          /\ JointType(joints[n]) = "revolute"
          /\ InitialQuaternions[joints[n].urdf[1]][joints[n].urdf[2]] = QuarterTurnX
          /\ joints[n].quaternion # IdentityQt

\* C5: a call of solve() (the one step that changes outcome while idle) with
\* ikChain or target null ends as a no-op: CCDIKSolver is not entered, and
\* no joint and no joint of a description changes.
C5_MissingOperandIsNoOp ==
    [][(pc = "idle" /\ outcome' # outcome /\ (~ikChain \/ target = Null))
          => /\ outcome' = "noop"
             /\ pc' = "idle"
             /\ joints' = joints
             /\ _ikJoints' = _ikJoints
             /\ urdfQuaternion' = urdfQuaternion]_vars

\* solve() was called on a built chain with a target set but ikChain null
C5_Witness ==
    outcome = "noop" /\ built # <<>> /\ target # Null /\ ~ikChain

\* C6: when updateURDFRobot is set, after solve() has returned each joint of
\* the chain carries the orientation of its joint in the description; when
\* it is not set, the descriptions keep the orientations they started with.
C6_WriteBack ==
    IF _config.updateURDFRobot
    THEN (pc = "idle" /\ outcome = "solved")
            => \A k \in 2..Len(PathTo(_endEffector)) :
                  LET j == joints[PathTo(_endEffector)[k]]
                  IN  urdfQuaternion[j.urdf[1]][j.urdf[2]] = j.quaternion
    ELSE urdfQuaternion = InitialQuaternions

\* C7: createFromURDF does not return for a description that branches or
\* has a joint with an all-zero axis.
C7_MalformedIsRejected ==
    \A k \in 1..Len(built) : ~Malformed(built[k])

\* C8: once createFromURDF has returned, ikJoints is the chain from the root
\* to the end effector, in order.
C8_IkJointsIsTheChain ==
    (pc = "idle" /\ built # <<>>)
        => ikJoints(joints, _ikJoints) = PathTo(_endEffector)

\* C9: for a joint that is not fixed and declares no limit, the body of the
\* for loop leaves the orientation of the aiming and axis-correction steps.
C9_NoLimitNoClamp ==
    AtJoint =>
        \A fresh \in {Refreshed} :
            ~DeclaresLimit(fresh[_ikJoints[i]]) =>
                \A q \in {AxisCorrected(fresh[_ikJoints[i]],
                                        Aimed(fresh[_ikJoints[i]],
                                              fresh[_endEffector].matrixWorld.t,
                                              target[1]))} :
                    Clamped(fresh[_ikJoints[i]], q) = q

\* C10: the angle the body of the for loop derives for a joint that is not
\* fixed is a number between -180 and 180 degrees.
C10_AngleIsDefined ==
    AtJoint =>
        \A fresh \in {Refreshed} :
            \A q \in {AxisCorrected(fresh[_ikJoints[i]],
                                    Aimed(fresh[_ikJoints[i]],
                                          fresh[_endEffector].matrixWorld.t,
                                          target[1]))} :
                \A a \in {getIKJointRotationAngle(
                              [fresh[_ikJoints[i]] EXCEPT !.quaternion = q])} :
                    /\ ~IsNaN(a)
                    /\ ~Less(a, Int2Num(-180))
                    /\ ~Greater(a, Int2Num(180))

====
